---------------------------- MODULE Spec2Model ----------------------------
(***************************************************************************)
(* A model of the `roots` crate: the dense polynomial type Polynom         *)
(* (src/src/polynomials.rs) and the n-th root solver (src/src/main.rs).    *)
(*                                                                         *)
(* Polynom coefficients are f64 in the source.  In the polynomial part of  *)
(* the model a coefficient is an integer of magnitude at most MaxCoef: on  *)
(* such values the f64 operations +, * and == of the source are exact, so  *)
(* integer arithmetic computes what the code computes.  A coefficient      *)
(* sequence is a TLA+ sequence: the source's index i is the model's i + 1. *)
(***************************************************************************)
EXTENDS Integers, Sequences, FiniteSets, TLC

VARIABLES
    \* the polynomial machine
    p, op, text,
    \* the set_at rewriting run
    rp, rprev, ri, rv, rtodo, rlen,
    \* a call of power
    pw_x, pw_n, pw_result, pw_y, pw_count, pw_pc, pw_ret,
    \* a call of root
    r_x, r_n, r_step, r_max, r_want, r_p, r_u, r_i, r_pc, r_ret

polyVars == <<p, op, text>>
rewriteVars == <<rp, rprev, ri, rv, rtodo, rlen>>
powerVars == <<pw_x, pw_n, pw_result, pw_y, pw_count, pw_pc, pw_ret>>
rootVars == <<r_x, r_n, r_step, r_max, r_want, r_p, r_u, r_i, r_pc, r_ret>>
vars == <<polyVars, rewriteVars, powerVars, rootVars>>

(***************************************************************************)
(* Bounds of the polynomial model.                                         *)
(***************************************************************************)
\* highest degree of a stored polynomial
MaxDeg == 2
\* largest magnitude of a stored coefficient
MaxCoef == 1

\* the scalar arguments (of set_at, plus, by) and the entries of the lists
\* given to initialize: a negative value, zero and a positive value
Scalars == {0 - 1, 0, 1}

Coefs == (0 - MaxCoef)..MaxCoef

Abs(x) == IF x < 0 THEN 0 - x ELSE x

(***************************************************************************)
(* impl Polynom                                                            *)
(***************************************************************************)
zero == <<0>>

single(n) == [i \in 1..(n + 1) |-> IF i - 1 < n THEN 0 ELSE 1]

\* the two assertions of initialize: a list that fails one makes it panic
InitializeOk(coefs) == Len(coefs) > 0 /\ coefs[Len(coefs)] # 0

initialize(coefs) == coefs

degree(c) == Len(c) - 1

at(c, i) == c[i + 1]

\* mutant of trimLoop: pops while the vector is not empty
RECURSIVE trimLoop_popToEmpty(_)
trimLoop_popToEmpty(c) ==
    IF Len(c) > 0 /\ c[Len(c)] = 0
    THEN trimLoop_popToEmpty(SubSeq(c, 1, Len(c) - 1))
    ELSE c

RECURSIVE trimLoop(_)
trimLoop(c) ==
    IF Len(c) > 1 /\ c[Len(c)] = 0
    THEN trimLoop(SubSeq(c, 1, Len(c) - 1))
    ELSE c

trim(c) == trimLoop(c)

\* mutant of set_at: the trailing trim is missing
set_at_noTrim(c, i, v) == [c EXCEPT ![i + 1] = v]

set_at(c, i, v) == trim([c EXCEPT ![i + 1] = v])

plus(c, x) == trim([i \in 1..Len(c) |-> c[i] + x])

by(c, x) == [i \in 1..Len(c) |-> c[i] * x]

(***************************************************************************)
(* impl ops::Add<Polynom> for Polynom                                      *)
(***************************************************************************)
\* mutant of add: the shorter operand's leading coefficient is not summed
add_shortByOne(self, rhs) ==
    LET min == IF degree(self) >= degree(rhs) THEN rhs ELSE self
        max == IF degree(self) >= degree(rhs) THEN self ELSE rhs
    IN  [k \in 1..(degree(max) + 1) |->
            LET i == k - 1
            IN  IF i < degree(min) THEN min[i + 1] + max[i + 1]
                                   ELSE max[i + 1]]

add(self, rhs) ==
    LET min == IF degree(self) >= degree(rhs) THEN rhs ELSE self
        max == IF degree(self) >= degree(rhs) THEN self ELSE rhs
    IN  [k \in 1..(degree(max) + 1) |->
            LET i == k - 1
            IN  IF i <= degree(min) THEN min[i + 1] + max[i + 1]
                                    ELSE max[i + 1]]

(***************************************************************************)
(* impl ops::Mul<Polynom> for Polynom: the double loop, i outer, j inner,  *)
(* accumulating into result[i + j].                                        *)
(***************************************************************************)
RECURSIVE mulLoop(_, _, _, _, _)
mulLoop(self, rhs, result, i, j) ==
    IF i > degree(self) THEN result
    ELSE IF j > degree(rhs) THEN mulLoop(self, rhs, result, i + 1, 0)
    ELSE mulLoop(self, rhs,
                 [result EXCEPT ![i + j + 1] = @ + self[i + 1] * rhs[j + 1]],
                 i, j + 1)

mul(self, rhs) ==
    LET d == degree(self) + degree(rhs)
        result == [single(d) EXCEPT ![d + 1] = 0]
    IN  trim(mulLoop(self, rhs, result, 0, 0))

(***************************************************************************)
(* impl fmt::Display for Polynom.  The rendering is a sequence of          *)
(* one-character strings.  to_string of a magnitude or of an index is its  *)
(* decimal digits.                                                         *)
(***************************************************************************)
DigitChar(d) == <<"0", "1", "2", "3", "4", "5", "6", "7", "8", "9">>[d + 1]

RECURSIVE to_string(_)
to_string(n) ==
    IF n < 10 THEN <<DigitChar(n)>>
    ELSE to_string(n \div 10) \o <<DigitChar(n % 10)>>

fmtTerm(c, i) ==
    LET d == degree(c)
        x == c[i + 1]
    IN  IF x # 0
        THEN (IF i < d /\ x > 0 THEN <<"+">>
              ELSE IF x < 0 THEN <<"-">> ELSE <<>>)
             \o (IF Abs(x) # 1 \/ i = 0 THEN to_string(Abs(x)) ELSE <<>>)
             \o (IF i > 0 THEN <<"X">> ELSE <<>>)
             \o (IF i > 1 THEN <<"^">> \o to_string(i) ELSE <<>>)
        ELSE <<>>

RECURSIVE fmtLoop(_, _, _)
fmtLoop(c, i, res) ==
    IF i < 0 THEN res ELSE fmtLoop(c, i - 1, res \o fmtTerm(c, i))

fmt(c) ==
    LET res == fmtLoop(c, degree(c), <<>>)
    IN  IF Len(res) = 0 THEN <<"0">> ELSE res

(***************************************************************************)
(* Unsigned big integers: the little-endian sequence of the base-2^14      *)
(* digits, without leading zero digits (0 is <<>>).                        *)
(***************************************************************************)
LimbBits == 14
Base == 16384

Pow2(n) == <<1, 2, 4, 8, 16, 32, 64, 128, 256, 512, 1024, 2048, 4096, 8192, 16384>>[n + 1]

RECURSIVE BNorm(_)
BNorm(a) == IF Len(a) > 0 /\ a[Len(a)] = 0 THEN BNorm(SubSeq(a, 1, Len(a) - 1)) ELSE a

Limb(a, i) == IF i >= 1 /\ i <= Len(a) THEN a[i] ELSE 0

\* digits (each below 2^31 - Base) to a big integer
RECURSIVE BCarry(_, _, _)
BCarry(cols, i, carry) ==
    IF i > Len(cols)
    THEN (IF carry = 0 THEN <<>> ELSE <<carry % Base>> \o BCarry(cols, i, carry \div Base))
    ELSE LET t == cols[i] + carry
         IN  <<t % Base>> \o BCarry(cols, i + 1, t \div Base)

BFromNat(n) == BNorm(BCarry(<<n>>, 1, 0))

RECURSIVE BCmpFrom(_, _, _)
BCmpFrom(a, b, i) ==
    IF i = 0 THEN 0
    ELSE IF a[i] > b[i] THEN 1
    ELSE IF a[i] < b[i] THEN 0 - 1
    ELSE BCmpFrom(a, b, i - 1)

BCmp(a, b) ==
    IF Len(a) > Len(b) THEN 1
    ELSE IF Len(a) < Len(b) THEN 0 - 1
    ELSE BCmpFrom(a, b, Len(a))

BAdd(a, b) ==
    LET n == IF Len(a) >= Len(b) THEN Len(a) ELSE Len(b)
    IN  BNorm(BCarry([i \in 1..n |-> Limb(a, i) + Limb(b, i)], 1, 0))

\* a - b for a >= b
RECURSIVE BSubFrom(_, _, _, _)
BSubFrom(a, b, i, borrow) ==
    IF i > Len(a) THEN <<>>
    ELSE LET t == a[i] - Limb(b, i) - borrow
         IN  IF t < 0 THEN <<t + Base>> \o BSubFrom(a, b, i + 1, 1)
                      ELSE <<t>> \o BSubFrom(a, b, i + 1, 0)

BSub(a, b) == BNorm(BSubFrom(a, b, 1, 0))

\* a * b for a and b of at most 4 digits each (a column sum stays below 2^31)
BMul(a, b) ==
    IF Len(a) = 0 \/ Len(b) = 0 THEN <<>>
    ELSE LET col(k) ==
                 LET lo == IF k - Len(b) + 1 > 1 THEN k - Len(b) + 1 ELSE 1
                     hi == IF k < Len(a) THEN k ELSE Len(a)
                     F[i \in (lo - 1)..hi] ==
                         IF i = lo - 1 THEN 0 ELSE F[i - 1] + a[i] * b[k + 1 - i]
                 IN  F[hi]
         IN  BNorm(BCarry([k \in 1..(Len(a) + Len(b) - 1) |-> col(k)], 1, 0))

BitLenLimb(x) ==
    CHOOSE n \in 0..LimbBits : (n = 0 /\ x = 0) \/ (n > 0 /\ Pow2(n - 1) <= x /\ x < Pow2(n))

BBitLen(a) == IF Len(a) = 0 THEN 0 ELSE (Len(a) - 1) * LimbBits + BitLenLimb(a[Len(a)])

\* a * 2^n
BShl(a, n) ==
    IF Len(a) = 0 THEN <<>>
    ELSE LET q == n \div LimbBits
             r == n % LimbBits
             hi == Pow2(LimbBits - r)
         IN  BNorm([i \in 1..(Len(a) + q + 1) |->
                      IF i <= q THEN 0
                      ELSE (Limb(a, i - q) % hi) * Pow2(r) + (Limb(a, i - q - 1) \div hi)])

\* floor(a / 2^n)
BShr(a, n) ==
    LET q == n \div LimbBits
        r == n % LimbBits
    IN  IF q >= Len(a) THEN <<>>
        ELSE BNorm([i \in 1..(Len(a) - q) |->
                      (Limb(a, i + q) \div Pow2(r)) + (Limb(a, i + q + 1) % Pow2(r)) * Pow2(LimbBits - r)])

\* bit n of a (bit 0 is the lowest)
BBit(a, n) == (Limb(a, (n \div LimbBits) + 1) \div Pow2(n % LimbBits)) % 2

\* whether one of the n lowest bits of a is set
BLowNonZero(a, n) ==
    LET q == n \div LimbBits
        r == n % LimbBits
    IN  \/ \E i \in 1..q : Limb(a, i) # 0
        \/ Limb(a, q + 1) % Pow2(r) # 0

BOdd(a) == Len(a) > 0 /\ a[1] % 2 = 1

BOne == <<1>>

(***************************************************************************)
(* f64: IEEE 754 binary64, round to nearest, ties to even.  A finite       *)
(* non-zero value is (-1)^s * m * 2^e with 2^52 <= m < 2^53 and            *)
(* -1074 <= e <= 971 (normal) or m < 2^52 and e = -1074 (subnormal).       *)
(***************************************************************************)
F64MantBits == 53
F64MinExp == 0 - 1074
F64MaxExp == 971

F64NaN == [k |-> "nan", s |-> 0, e |-> 0, m |-> <<>>]
F64Inf(sign) == [k |-> "inf", s |-> sign, e |-> 0, m |-> <<>>]
F64Zero(sign) == [k |-> "zero", s |-> sign, e |-> 0, m |-> <<>>]
F64Fin(sign, ex, mant) == [k |-> "fin", s |-> sign, e |-> ex, m |-> mant]

\* (-1)^sign * (mant + f) * 2^ex, where 0 < f < 1 when sticky and f = 0
\* otherwise, rounded to f64; with sticky, mant has at least 55 bits
F64Round(sign, mant, sticky, ex) ==
    IF Len(mant) = 0 THEN F64Zero(sign)
    ELSE LET len == BBitLen(mant)
             eo == IF ex + len - F64MantBits > F64MinExp THEN ex + len - F64MantBits ELSE F64MinExp
             sh == eo - ex
         IN  IF sh <= 0
             THEN (IF eo > F64MaxExp THEN F64Inf(sign) ELSE F64Fin(sign, eo, BShl(mant, 0 - sh)))
             ELSE LET q == BShr(mant, sh)
                      half == BBit(mant, sh - 1) = 1
                      rest == sticky \/ BLowNonZero(mant, sh - 1)
                      up == half /\ (rest \/ BOdd(q))
                      q1 == IF up THEN BAdd(q, BOne) ELSE q
                      carry == BBitLen(q1) > F64MantBits
                      q2 == IF carry THEN BShr(q1, 1) ELSE q1
                      e2 == IF carry THEN eo + 1 ELSE eo
                  IN  IF Len(q2) = 0 THEN F64Zero(sign)
                      ELSE IF e2 > F64MaxExp THEN F64Inf(sign)
                      ELSE F64Fin(sign, e2, q2)

Xor(a, b) == IF a = b THEN 0 ELSE 1

F64Neg(a) == IF a.k = "nan" THEN a ELSE [a EXCEPT !.s = 1 - a.s]

F64Abs(a) == IF a.k = "nan" THEN a ELSE [a EXCEPT !.s = 0]

F64Mul(a, b) ==
    IF a.k = "nan" \/ b.k = "nan" THEN F64NaN
    ELSE IF a.k = "inf" \/ b.k = "inf"
    THEN (IF a.k = "zero" \/ b.k = "zero" THEN F64NaN ELSE F64Inf(Xor(a.s, b.s)))
    ELSE IF a.k = "zero" \/ b.k = "zero" THEN F64Zero(Xor(a.s, b.s))
    ELSE F64Round(Xor(a.s, b.s), BMul(a.m, b.m), FALSE, a.e + b.e)

\* the exponent gap past which the smaller operand of a sum only decides the rounding
FarGap == 64

F64Add(a, b) ==
    IF a.k = "nan" \/ b.k = "nan" THEN F64NaN
    ELSE IF a.k = "inf"
    THEN (IF b.k = "inf" /\ b.s # a.s THEN F64NaN ELSE a)
    ELSE IF b.k = "inf" THEN b
    ELSE IF a.k = "zero"
    THEN (IF b.k = "zero" THEN F64Zero(IF a.s = 1 /\ b.s = 1 THEN 1 ELSE 0) ELSE b)
    ELSE IF b.k = "zero" THEN a
    ELSE LET big == IF a.e >= b.e THEN a ELSE b
             small == IF a.e >= b.e THEN b ELSE a
             gap == big.e - small.e
         IN  IF gap > FarGap
             THEN LET m3 == BShl(big.m, 3)
                  IN  IF big.s = small.s
                      THEN F64Round(big.s, m3, TRUE, big.e - 3)
                      ELSE F64Round(big.s, BSub(m3, BOne), TRUE, big.e - 3)
             ELSE LET mb == BShl(big.m, gap)
                      c == BCmp(mb, small.m)
                  IN  IF big.s = small.s THEN F64Round(big.s, BAdd(mb, small.m), FALSE, small.e)
                      ELSE IF c = 0 THEN F64Zero(0)
                      ELSE IF c > 0 THEN F64Round(big.s, BSub(mb, small.m), FALSE, small.e)
                      ELSE F64Round(small.s, BSub(small.m, mb), FALSE, small.e)

F64Sub(a, b) == F64Add(a, F64Neg(b))

\* a * x for a digit x
BMulDigit(a, x) == IF x = 0 THEN <<>> ELSE BMul(a, <<x>>)

\* floor(r / d) for r < d * Base and d of DivLimbs digits, the highest at
\* least Base / 2: the estimate from the two highest digits of r is at most
\* 2 too high
DivLimbs == 4

DivDigit(r, d) ==
    LET top == Limb(r, DivLimbs + 1) * Base + Limb(r, DivLimbs)
        est == IF top \div d[DivLimbs] >= Base THEN Base - 1 ELSE top \div d[DivLimbs]
    IN  IF BCmp(BMulDigit(d, est), r) <= 0 THEN est
        ELSE IF BCmp(BMulDigit(d, est - 1), r) <= 0 THEN est - 1
        ELSE est - 2

\* long division, a digit a turn: from st = <<r, <<>>>> with r < 2 * d, n
\* turns give <<rest, floor(r * Base^(n-1) / d)>>, with rest = 0 exactly when
\* the division is exact
RECURSIVE DivLoop(_, _, _)
DivLoop(st, d, n) ==
    IF n = 0 THEN st
    ELSE LET digit == DivDigit(st[1], d)
             r1 == BSub(st[1], BMulDigit(d, digit))
         IN  DivLoop(<<BShl(r1, LimbBits), BAdd(BShl(st[2], LimbBits), BFromNat(digit))>>, d, n - 1)

\* the turns of a division: the quotient has 56 or 57 bits
DivTurns == 5

F64Div(a, b) ==
    IF a.k = "nan" \/ b.k = "nan" THEN F64NaN
    ELSE IF a.k = "inf"
    THEN (IF b.k = "inf" THEN F64NaN ELSE F64Inf(Xor(a.s, b.s)))
    ELSE IF b.k = "inf" THEN F64Zero(Xor(a.s, b.s))
    ELSE IF b.k = "zero"
    THEN (IF a.k = "zero" THEN F64NaN ELSE F64Inf(Xor(a.s, b.s)))
    ELSE IF a.k = "zero" THEN F64Zero(Xor(a.s, b.s))
    ELSE LET sa == DivLimbs * LimbBits - BBitLen(a.m)
             sb == DivLimbs * LimbBits - BBitLen(b.m)
             rq == DivLoop(<<BShl(a.m, sa), <<>>>>, BShl(b.m, sb), DivTurns)
         IN  F64Round(Xor(a.s, b.s), rq[2], Len(rq[1]) # 0,
                   (a.e - sa) - (b.e - sb) - (DivTurns - 1) * LimbBits)

\* a < b on finite non-zero magnitudes
MagLt(a, b) ==
    LET la == a.e + BBitLen(a.m)
        lb == b.e + BBitLen(b.m)
    IN  IF la # lb THEN la < lb
        ELSE IF a.e >= b.e THEN BCmp(BShl(a.m, a.e - b.e), b.m) < 0
        ELSE BCmp(a.m, BShl(b.m, b.e - a.e)) < 0

F64Eq(a, b) ==
    IF a.k = "nan" \/ b.k = "nan" THEN FALSE
    ELSE IF a.k = "zero" /\ b.k = "zero" THEN TRUE
    ELSE a = b

F64Lt(a, b) ==
    IF a.k = "nan" \/ b.k = "nan" THEN FALSE
    ELSE IF a.k = "zero" /\ b.k = "zero" THEN FALSE
    ELSE IF a = b THEN FALSE
    ELSE IF a.k = "zero" THEN b.s = 0
    ELSE IF b.k = "zero" THEN a.s = 1
    ELSE IF a.s # b.s THEN a.s = 1
    ELSE LET lt == IF a.k = "inf" THEN FALSE
                   ELSE IF b.k = "inf" THEN TRUE
                   ELSE MagLt(a, b)
         IN  IF a.s = 0 THEN lt ELSE ~lt

F64Le(a, b) == F64Lt(a, b) \/ F64Eq(a, b)

F64Gt(a, b) == F64Lt(b, a)

F64Ge(a, b) == F64Le(b, a)

\* `n as f64` for an integer of magnitude below 2^31
F64FromInt(n) ==
    IF n < 0 THEN F64Round(1, BFromNat(0 - n), FALSE, 0)
    ELSE F64Round(0, BFromNat(n), FALSE, 0)

(***************************************************************************)
(* src/src/main.rs: power, basic_next, root, over f64.                     *)
(***************************************************************************)
F64One == F64FromInt(1)

\* const EPSILON: f64 = 1e-20, the f64 nearest to the decimal literal:
\* 6646139978924579 * 2^-119
EPSILON == F64Fin(0, 0 - 119, <<547, 12873, 2576, 1511>>)

MAX_ITERATIONS == 1000000

\* the loop body without the squaring of the running base
powerBody_noSquare(st) ==
    [result |-> IF st.count % 2 = 1 THEN F64Mul(st.result, st.y) ELSE st.result,
     y |-> st.y,
     count |-> st.count \div 2]

\* one turn of the loop of power on its three locals
powerBody(st) ==
    [result |-> IF st.count % 2 = 1 THEN F64Mul(st.result, st.y) ELSE st.result,
     y      |-> F64Mul(st.y, st.y),
     count  |-> st.count \div 2]

powerEntry(x, n) == [result |-> F64One, y |-> x, count |-> n]

RECURSIVE powerRun(_)
powerRun(st) == IF st.count > 0 THEN powerRun(powerBody(st)) ELSE st.result

power(x, n) == powerRun(powerEntry(x, n))

\* Un+1 = Un - (Un^n - x) / (n.Un^(n-1))
basic_next(v, n, pr) ==
    F64Sub(pr, F64Div(F64Sub(power(pr, n), v),
                      F64Mul(F64FromInt(n), power(pr, n - 1))))

\* if x.abs() <= EPSILON { return 0.0 }
rootTooSmall(x) == F64Le(F64Abs(x), EPSILON)

\* the first estimate on the wrong side of zero
rootFirstEstimate_wrongSide(x) ==
    IF F64Ge(x, F64FromInt(0)) THEN F64FromInt(0 - 1) ELSE F64FromInt(1)

\* let mut p = if x >= 0.0 { 1.0 } else { -1.0 }
rootFirstEstimate(x) == IF F64Ge(x, F64FromInt(0)) THEN F64FromInt(1) ELSE F64FromInt(0 - 1)

\* ((u - p) / p).abs()
relativeChange(u, pr) == F64Abs(F64Div(F64Sub(u, pr), pr))

\* the loop condition that stops one turn early
rootContinue_oneTurnLess(u, pr, i, max) ==
    F64Ge(F64Abs(F64Div(F64Sub(u, pr), pr)), EPSILON) /\ i < max

\* the condition of the while loop of root, for the iteration cap max
rootContinue(u, pr, i, max) == F64Ge(relativeChange(u, pr), EPSILON) /\ i <= max

(***************************************************************************)
(* The polynomial state machine.  p is the Polynom the program holds, op   *)
(* the operation that produced it, text the rendering of the last Display  *)
(* call (<<>> when the last operation was not a Display).  The right-hand  *)
(* (or left-hand) operand of + and * is a second Polynom the program has   *)
(* built with a constructor.                                               *)
(***************************************************************************)
Lists == UNION {[1..l -> Scalars] : l \in 1..(MaxDeg + 1)}

Operands ==
    {zero} \cup {single(n) : n \in 0..MaxDeg}
           \cup {initialize(coefs) : coefs \in {l \in Lists : InitializeOk(l)}}

InBounds(c) ==
    /\ Len(c) <= MaxDeg + 1
    /\ \A i \in 1..Len(c) : c[i] \in Coefs

Store(c, name) ==
    /\ InBounds(c)
    /\ p' = c
    /\ op' = name
    /\ text' = <<>>
    /\ UNCHANGED <<rewriteVars, powerVars, rootVars>>

PolyIdle ==
    /\ p = zero
    /\ op = "zero"
    /\ text = <<>>

RewriteIdle ==
    /\ rp = zero
    /\ rprev = zero
    /\ ri = 0 - 1
    /\ rv = 0
    /\ rtodo = {}
    /\ rlen = 1

PowerIdle ==
    /\ pw_x = F64Zero(0)
    /\ pw_n = 0
    /\ pw_result = F64Zero(0)
    /\ pw_y = F64Zero(0)
    /\ pw_count = 0
    /\ pw_pc = "idle"
    /\ pw_ret = F64Zero(0)

RootIdle ==
    /\ r_x = F64Zero(0)
    /\ r_n = 0
    /\ r_step = "none"
    /\ r_max = 0
    /\ r_want = F64Zero(0)
    /\ r_p = F64Zero(0)
    /\ r_u = F64Zero(0)
    /\ r_i = 0
    /\ r_pc = "idle"
    /\ r_ret = F64Zero(0)

InitPoly == PolyIdle /\ RewriteIdle /\ PowerIdle /\ RootIdle

Zero == Store(zero, "zero")

Single == \E n \in 0..MaxDeg : Store(single(n), "single")

Initialize == \E coefs \in Lists : InitializeOk(coefs) /\ Store(initialize(coefs), "initialize")

SetAt == \E i \in 0..degree(p), v \in Scalars : Store(set_at(p, i, v), "set_at")

Plus == \E x \in Scalars : Store(plus(p, x), "plus")

By == \E x \in Scalars : Store(by(p, x), "by")

AddRhs == \E rhs \in Operands : Store(add(p, rhs), "add")

MulRhs == \E rhs \in Operands : Store(mul(p, rhs), "mul")

Display ==
    /\ text' = fmt(p)
    /\ op' = "fmt"
    /\ UNCHANGED <<p, rewriteVars, powerVars, rootVars>>

NextPoly ==
    \/ Zero
    \/ Single
    \/ Initialize
    \/ SetAt
    \/ Plus
    \/ By
    \/ AddRhs
    \/ MulRhs
    \/ Display

SpecPoly == InitPoly /\ [][NextPoly]_vars

(***************************************************************************)
(* The set_at rewriting run of tests::valid_polynomes: a Polynom built by  *)
(* a constructor has every coefficient rewritten to the value rv, one      *)
(* set_at call per index, in any order.  rprev and ri are the receiver and *)
(* the index of the last call (ri = -1 before the first), rtodo the        *)
(* indices not yet rewritten, rlen the length the constructor gave.        *)
(***************************************************************************)
InitRewrite ==
    /\ PolyIdle /\ PowerIdle /\ RootIdle
    /\ rp \in Operands
    /\ rprev = rp
    /\ ri = 0 - 1
    /\ rv \in Scalars
    /\ rtodo = 0..degree(rp)
    /\ rlen = Len(rp)

\* an index past the degree makes the indexing of set_at panic
Rewrite ==
    \E i \in rtodo :
        /\ i <= degree(rp)
        /\ rp' = set_at(rp, i, rv)
        /\ rprev' = rp
        /\ ri' = i
        /\ rtodo' = rtodo \ {i}
        /\ UNCHANGED <<rv, rlen, polyVars, powerVars, rootVars>>

NextRewrite == Rewrite

SpecRewrite == InitRewrite /\ [][NextRewrite]_vars

(***************************************************************************)
(* A call power(pw_x, pw_n), a turn of its loop a step.  pw_st holds the   *)
(* locals result, y and count.                                             *)
(***************************************************************************)
\* the largest magnitude of the integer base of a call
MaxBase == 3
\* the largest exponent of a call
MaxExpo == 12

powerLocals == [result |-> pw_result, y |-> pw_y, count |-> pw_count]

InitPower ==
    /\ PolyIdle /\ RewriteIdle /\ RootIdle
    /\ pw_x \in {F64FromInt(k) : k \in (0 - MaxBase)..MaxBase}
    /\ pw_n \in 0..MaxExpo
    /\ pw_result = powerEntry(pw_x, pw_n).result
    /\ pw_y = powerEntry(pw_x, pw_n).y
    /\ pw_count = powerEntry(pw_x, pw_n).count
    /\ pw_pc = "loop"
    /\ pw_ret = F64Zero(0)

PowerTurn ==
    /\ pw_pc = "loop"
    /\ pw_count > 0
    /\ pw_result' = powerBody(powerLocals).result
    /\ pw_y' = powerBody(powerLocals).y
    /\ pw_count' = powerBody(powerLocals).count
    /\ UNCHANGED <<pw_x, pw_n, pw_pc, pw_ret, polyVars, rewriteVars, rootVars>>

PowerReturn ==
    /\ pw_pc = "loop"
    /\ ~(pw_count > 0)
    /\ pw_ret' = pw_result
    /\ pw_pc' = "done"
    /\ UNCHANGED <<pw_x, pw_n, pw_result, pw_y, pw_count, polyVars, rewriteVars, rootVars>>

NextPower ==
    \/ PowerTurn
    \/ PowerReturn

\* The thread that runs the call keeps running: while the call has not
\* returned, a step that moves it (a turn of the loop halves count, the
\* return changes pw_pc) is eventually taken.
PowerRuns ==
    /\ pw_pc = "loop"
    /\ pw_pc' \in {"loop", "done"}
    /\ pw_count' \in {pw_count, pw_count \div 2}

SpecPower == InitPower /\ [][NextPower]_vars /\ WF_<<pw_pc, pw_count>>(PowerRuns)

(***************************************************************************)
(* A call root(r_x, r_n, next), a turn of its loop a step.  r_step names   *)
(* the step function: "basic_next", or "any" for a step function that may  *)
(* return any value of StepValues at each call.  r_max is the iteration    *)
(* cap the loop compares i with.  r_want is the expected_root of the test  *)
(* case the call belongs to.                                               *)
(***************************************************************************)
stepResults(step, x, n, pr) ==
    IF step = "basic_next" THEN {basic_next(x, n, pr)} ELSE
    {F64FromInt(1), F64FromInt(2), F64FromInt(0 - 1), F64Zero(0), F64NaN, F64Inf(0)}

RootReturnZero ==
    /\ r_pc = "entry"
    /\ rootTooSmall(r_x)
    /\ r_ret' = F64Zero(0)
    /\ r_pc' = "done"
    /\ UNCHANGED <<r_x, r_n, r_step, r_max, r_want, r_p, r_u, r_i>>
    /\ UNCHANGED <<polyVars, rewriteVars, powerVars>>

RootFirstStep ==
    /\ r_pc = "entry"
    /\ ~rootTooSmall(r_x)
    /\ r_p' = rootFirstEstimate(r_x)
    /\ \E v \in stepResults(r_step, r_x, r_n, rootFirstEstimate(r_x)) : r_u' = v
    /\ r_i' = 1
    /\ r_pc' = "loop"
    /\ UNCHANGED <<r_x, r_n, r_step, r_max, r_want, r_ret>>
    /\ UNCHANGED <<polyVars, rewriteVars, powerVars>>

RootIterate ==
    /\ r_pc = "loop"
    /\ rootContinue(r_u, r_p, r_i, r_max)
    /\ r_p' = r_u
    /\ \E v \in stepResults(r_step, r_x, r_n, r_u) : r_u' = v
    /\ r_i' = r_i + 1
    /\ UNCHANGED <<r_x, r_n, r_step, r_max, r_want, r_pc, r_ret>>
    /\ UNCHANGED <<polyVars, rewriteVars, powerVars>>

RootReturn ==
    /\ r_pc = "loop"
    /\ ~rootContinue(r_u, r_p, r_i, r_max)
    /\ r_ret' = r_u
    /\ r_pc' = "done"
    /\ UNCHANGED <<r_x, r_n, r_step, r_max, r_want, r_p, r_u, r_i>>
    /\ UNCHANGED <<polyVars, rewriteVars, powerVars>>

NextRoot ==
    \/ RootReturnZero
    \/ RootFirstStep
    \/ RootIterate
    \/ RootReturn

\* The thread that runs the call keeps running: while the call has not
\* returned, a step that moves it (a turn of the loop adds 1 to i, the others
\* change r_pc) is eventually taken.
RootRuns ==
    /\ r_pc \in {"entry", "loop"}
    /\ r_pc' \in {"loop", "done"}
    /\ r_i' \in {r_i, r_i + 1}

\* the integers whose powers the test takes the roots of
MaxRootX == 10
\* the degrees of the test: (2..=10)
DegreeMin == 2
DegreeMax == 10

\* tests::nth_square_for_x_to_the_power_n_should_be_x: the n-th root of
\* power(x, n) with the step function basic_next
InitNewton ==
    /\ PolyIdle /\ RewriteIdle /\ PowerIdle
    /\ \E k \in 0..MaxRootX, n \in DegreeMin..DegreeMax :
           /\ r_want = F64FromInt(k)
           /\ r_n = n
           /\ r_x = power(F64FromInt(k), n)
    /\ r_step = "basic_next"
    /\ r_max = MAX_ITERATIONS
    /\ r_p = F64Zero(0)
    /\ r_u = F64Zero(0)
    /\ r_i = 0
    /\ r_pc = "entry"
    /\ r_ret = F64Zero(0)

SpecNewton == InitNewton /\ [][NextRoot]_vars

\* the largest iteration cap of a call with an arbitrary step function
IterCap == 3

\* root with a step function that returns any value at each call
InitRootAny ==
    /\ PolyIdle /\ RewriteIdle /\ PowerIdle
    /\ r_x \in {F64FromInt(4), F64FromInt(0 - 4), EPSILON, F64Zero(0)}
    /\ r_n \in DegreeMin..(DegreeMin + 1)
    /\ r_step = "any"
    /\ r_max \in 1..IterCap
    /\ r_want = F64Zero(0)
    /\ r_p = F64Zero(0)
    /\ r_u = F64Zero(0)
    /\ r_i = 0
    /\ r_pc = "entry"
    /\ r_ret = F64Zero(0)

SpecRootAny == InitRootAny /\ [][NextRoot]_vars /\ WF_<<r_pc, r_i>>(RootRuns)

(***************************************************************************)
(* Vocabulary of the claims.                                               *)
(***************************************************************************)
Canonical(c) == Len(c) >= 1 /\ (Len(c) > 1 => c[Len(c)] # 0)

\* the coefficient of degree k, an absent coefficient read as 0
Coef(c, k) == IF k + 1 <= Len(c) THEN c[k + 1] ELSE 0

IsZeroPoly(c) == \A k \in 0..degree(c) : Coef(c, k) = 0

SamePolynomial(a, b) ==
    \A k \in 0..(Len(a) + Len(b)) : Coef(a, k) = Coef(b, k)

Max2(a, b) == IF a >= b THEN a ELSE b

Min2(a, b) == IF a <= b THEN a ELSE b

RECURSIVE SumTo(_, _, _)
\* the sum of f(i) for i in lo..hi
SumTo(f(_), lo, hi) == IF lo > hi THEN 0 ELSE f(lo) + SumTo(f, lo + 1, hi)

\* the sum of a[i] * b[j] over the pairs with i + j = k
Conv(a, b, k) ==
    LET term(i) == IF k - i >= 0 /\ k - i <= degree(b) THEN a[i + 1] * b[k - i + 1] ELSE 0
    IN  SumTo(term, 0, degree(a))

\* the highest index with a non-zero coefficient, 0 when there is none
HighestNonZero(c) ==
    LET nz == {k \in 0..degree(c) : Coef(c, k) # 0}
    IN  IF nz = {} THEN 0 ELSE CHOOSE k \in nz : \A m \in nz : m <= k

(***************************************************************************)
(* C1                                                                      *)
(***************************************************************************)
\* C1: every reachable Polynom has at least one coefficient and, when it has
\* more than one, a last coefficient that is not zero.
C1_CanonicalForm == Canonical(p)

(***************************************************************************)
(* C4                                                                      *)
(***************************************************************************)
MulClaim(a, b) ==
    LET r == mul(a, b)
    IN  /\ \A k \in 0..(degree(a) + degree(b)) : Coef(r, k) = Conv(a, b, k)
        /\ (~IsZeroPoly(a) /\ ~IsZeroPoly(b)) => degree(r) = degree(a) + degree(b)
        /\ (IsZeroPoly(a) \/ IsZeroPoly(b)) => r = zero

\* C4: for the reachable Polynom p and every constructed operand, on either
\* side, the product has the convolution sum at every index, has degree
\* deg(a) + deg(b) when neither operand is the zero polynomial, and is the
\* canonical zero when one of them is.
C4_MulIsTrimmedConvolution ==
    \A q \in Operands : MulClaim(p, q) /\ MulClaim(q, p)

(***************************************************************************)
(* C5                                                                      *)
(***************************************************************************)
AddClaim(a, b) ==
    LET r == add(a, b)
        lo == Min2(degree(a), degree(b))
        hi == Max2(degree(a), degree(b))
        longer == IF degree(a) >= degree(b) THEN a ELSE b
    IN  /\ Len(r) = hi + 1
        /\ \A i \in 0..hi :
               r[i + 1] = IF i <= lo THEN a[i + 1] + b[i + 1] ELSE longer[i + 1]
        /\ r = add(b, a)

\* C5: for the reachable Polynom p and every constructed operand, on either
\* side, the sum has max(deg) + 1 coefficients, the sum of both coefficients
\* up to the shorter operand's degree and the longer operand's coefficient
\* above it, and does not depend on the order of the operands; zero() + p is
\* p, and single(n) + single(n) is single(n).by(2).
C5_AddIsCoefficientWise ==
    /\ \A q \in Operands : AddClaim(p, q) /\ AddClaim(q, p)
    /\ add(zero, p) = p
    /\ p = single(degree(p)) => add(p, single(degree(p))) = by(single(degree(p)), 2)

\* a sum whose leading coefficients cancelled: it keeps max(deg) + 1
\* coefficients
C5_Witness == op = "add" /\ Len(p) = MaxDeg + 1 /\ p[Len(p)] = 0 /\ p[1] # 0

(***************************************************************************)
(* C6                                                                      *)
(***************************************************************************)
\* C6: the reachable Polynom p equals (==, the derived element-wise
\* comparison of the coefficient vectors) a constructed Polynom exactly when
\* both have the same coefficient at every degree.
C6_EqualityIsMathematical ==
    \A q \in Operands : (p = q) <=> SamePolynomial(p, q)

(***************************************************************************)
(* C8                                                                      *)
(***************************************************************************)
\* the indices of the non-zero coefficients, highest first
RECURSIVE TermsFrom(_, _)
TermsFrom(c, i) ==
    IF i < 0 THEN <<>>
    ELSE (IF c[i + 1] # 0 THEN <<i>> ELSE <<>>) \o TermsFrom(c, i - 1)

ClaimedTerm(c, i, first) ==
    LET x == c[i + 1]
    IN  (IF x < 0 THEN <<"-">> ELSE IF ~first THEN <<"+">> ELSE <<>>)
        \o (IF Abs(x) = 1 /\ i >= 1 THEN <<>> ELSE to_string(Abs(x)))
        \o (IF i = 0 THEN <<>>
            ELSE IF i = 1 THEN <<"X">>
            ELSE <<"X", "^">> \o to_string(i))

RECURSIVE ClaimedTerms(_, _, _)
ClaimedTerms(c, terms, k) ==
    IF k > Len(terms) THEN <<>>
    ELSE ClaimedTerm(c, terms[k], k = 1) \o ClaimedTerms(c, terms, k + 1)

ClaimedFmt(c) ==
    LET terms == TermsFrom(c, degree(c))
    IN  IF terms = <<>> THEN <<"0">> ELSE ClaimedTerms(c, terms, 1)

\* C8: the rendering of the reachable Polynom p lists the non-zero terms from
\* the highest degree down, '-' before a negative term, '+' before a positive
\* term that is not the first one emitted and nothing before a positive first
\* term, the magnitude left out exactly when it is 1 and the degree at least
\* 1, 'X' for degree 1 and 'X^k' from degree 2 on, '0' when every coefficient
\* is zero.
C8_Format == op = "fmt" => text = ClaimedFmt(p)

(***************************************************************************)
(* C10                                                                     *)
(***************************************************************************)
\* the indexings a call performs, each as the index and the length of the
\* vector it indexes
fmtAccess(c) == {<<i, Len(c)>> : i \in 0..degree(c)}

addAccess(self, rhs) ==
    LET min == IF degree(self) >= degree(rhs) THEN rhs ELSE self
        max == IF degree(self) >= degree(rhs) THEN self ELSE rhs
    IN  {<<i, Len(max)>> : i \in 0..degree(max)}
        \cup {<<i, Len(min)>> : i \in {k \in 0..degree(max) : k <= degree(min)}}

mulAccess(self, rhs) ==
    LET d == degree(self) + degree(rhs)
    IN  {<<d, Len(single(d))>>}
        \cup {<<i, Len(self)>> : i \in 0..degree(self)}
        \cup {<<j, Len(rhs)>> : j \in 0..degree(rhs)}
        \cup {<<i + j, Len(single(d))>> : i \in 0..degree(self), j \in 0..degree(rhs)}

AccessesInRange(accesses) == \A a \in accesses : 0 <= a[1] /\ a[1] < a[2]

\* C10: the reachable Polynom p is never empty, so degree() = len - 1 does
\* not underflow, and every index Display, + and * use on p and on a
\* constructed operand lies within the vector it indexes.
C10_NoEmptyNoOutOfRange ==
    /\ Len(p) >= 1
    /\ degree(p) >= 0
    /\ AccessesInRange(fmtAccess(p))
    /\ \A q \in Operands :
           /\ Len(q) >= 1
           /\ AccessesInRange(addAccess(p, q) \cup addAccess(q, p))
           /\ AccessesInRange(mulAccess(p, q) \cup mulAccess(q, p))

\* a non-canonical Polynom (by and + do not trim) that has been rendered
C10_Witness == op = "fmt" /\ Len(p) = MaxDeg + 1 /\ p[Len(p)] = 0

(***************************************************************************)
(* C7                                                                      *)
(***************************************************************************)
\* C7: a set_at call changes the coefficient at its index to its value and
\* no other, and re-trims: the result is canonical and its degree is the
\* highest index left with a non-zero coefficient (0 when there is none);
\* and once every coefficient of a Polynom built by initialize has been
\* rewritten to 1, the result is initialize of rlen ones.
C7_SetAt ==
    /\ ri >= 0 =>
          LET updated == [rprev EXCEPT ![ri + 1] = rv]
          IN  /\ \A j \in 0..degree(rprev) :
                     Coef(rp, j) = IF j = ri THEN rv ELSE Coef(rprev, j)
              /\ Len(rp) <= Len(rprev)
              /\ Canonical(rp)
              /\ degree(rp) = HighestNonZero(updated)
    /\ (rtodo = {} /\ rv = 1) => rp = initialize([i \in 1..rlen |-> 1])

\* every coefficient of a Polynom of the largest length has been rewritten
\* to 1
C7_Witness == rtodo = {} /\ rv = 1 /\ ri >= 0 /\ rlen = MaxDeg + 1 /\ Len(rp) = rlen


(***************************************************************************)
(* C9                                                                      *)
(***************************************************************************)
\* x multiplied by itself n times, one factor at a time
RECURSIVE RepeatedProduct(_, _)
RepeatedProduct(x, n) == IF n = 0 THEN F64One ELSE F64Mul(RepeatedProduct(x, n - 1), x)

\* C9: a call of power returns, with count at 0, and what it returns is x
\* multiplied by itself n times: 1 when n is 0, whatever x, and 16 for
\* power(2, 4).
C9_PowerIsRepeatedProduct ==
    /\ [](pw_pc = "done" =>
            /\ pw_count = 0
            /\ pw_ret = RepeatedProduct(pw_x, pw_n)
            /\ pw_n = 0 => pw_ret = F64FromInt(1)
            /\ (pw_x = F64FromInt(2) /\ pw_n = 4) => pw_ret = F64FromInt(16))
    /\ <>(pw_pc = "done")

\* power(-3, 11) has returned
C9_Witness == pw_pc = "done" /\ pw_x = F64FromInt(0 - MaxBase) /\ pw_n = MaxExpo - 1

C3_RootTerminates ==
    /\ [](r_pc \in {"entry", "loop", "done"})
    /\ [](r_pc = "loop" => r_i - 1 <= r_max)
    /\ [][(r_pc = "loop" /\ (F64Lt(relativeChange(r_u, r_p), EPSILON) \/ r_i > r_max))
            => (r_pc' = "done" /\ r_ret' = r_u)]_vars
    /\ [](r_pc = "done" /\ ~rootTooSmall(r_x) =>
            /\ r_ret = r_u
            /\ F64Ge(relativeChange(r_u, r_p), EPSILON) => r_i = r_max + 1)
    /\ <>(r_pc = "done")

\* the iteration cap ran out on estimates that never settled
C3_Witness ==
    /\ r_pc = "done"
    /\ r_max = IterCap
    /\ r_i = r_max + 1
    /\ F64Ge(relativeChange(r_u, r_p), EPSILON)
    /\ r_ret = r_u

================================================================
